---- MODULE Spec2Model ----
(***************************************************************************)
(* Many-valued modal logic: the lattice engine (math_objects/lattice.py),   *)
(* the worlds (math_objects/world.py) and the model (math_objects/model.py).*)
(*                                                                         *)
(* Element ids, world objects and names are opaque in the program; they    *)
(* are numbered 1..n here.  A call's outcome is a record: the exception it  *)
(* raised ("none" when it returned) and the value it returned.              *)
(***************************************************************************)
EXTENDS Integers, Sequences, FiniteSets

\* ---- bounds of the model ----
MaxElems == 2       \* element ids are 1..MaxElems
MaxWorlds == 2      \* World objects are 1..MaxWorlds
MaxProps == 2       \* proposition names are 1..MaxProps

VARIABLES
    lattice,                \* the Lattice (for a ManyLattice: its own, base, fields)
    comp_sub_lat,           \* ManyLattice.comp_sub_lat: a list of Lattice objects
    worlds,                 \* Model.worlds
    initial_state,          \* Model.initial_state
    accessibility_relation, \* Model.accessibility_relation: World -> set of World
    name_short,             \* World.name_short of every World object
    world_lattice,          \* World.lattice.name of every World object
    assignments,            \* World.assignments of a World (whose lattice is "lattice")
    negation_map,           \* ManyLattice.negation_map: element -> element (a dict)
    implication_map,        \* ManyLattice.implication_map: pair of elements -> element
    filter,                 \* ManyLattice.filter: the designated elements
    world_assignments,      \* World.assignments of every World object of a Model
    sub_negation_map,       \* Lattice.negation_map of registered sublattices, by name
    call                    \* the last call: operation, arguments, outcome

\* the fields that formula evaluation reads and nothing in the program writes
tables == <<negation_map, implication_map, filter, world_assignments, sub_negation_map>>

vars == <<lattice, comp_sub_lat, worlds, initial_state,
          accessibility_relation, name_short, world_lattice,
          assignments, tables, call>>

\* ---- outcomes of a call ----
Ok(v) == [exc |-> "none", value |-> v]
Raise(e) == [exc |-> e, value |-> 0]
NoCall == [op |-> "none", args |-> <<>>, result |-> Ok(0)]

\* ---- iteration of a Python set ----
\* A set of element ids has no order of its own: the build fixes one (hashing),
\* the same for equal sets built the same way.  Every Lattice object carries the
\* order in which sets of element ids are iterated, a field "order" that
\* construction may set to any order of the element ids.
IterOrders(S) == { p \in [1..Cardinality(S) -> S] : \A i, j \in DOMAIN p : p[i] = p[j] => i = j }
Pos(L, x) == CHOOSE i \in DOMAIN L.order : L.order[i] = x
FirstOf(L, S) == CHOOSE x \in S : \A y \in S : Pos(L, x) <= Pos(L, y)
RECURSIVE list(_, _)
list(L, S) == IF S = {} THEN <<>> ELSE <<FirstOf(L, S)>> \o list(L, S \ {FirstOf(L, S)})

\* ---- Lattice ----
NoAttr == 0   \* the value of an attribute (top, bottom) that is not assigned yet

is_less_than_or_equal(L, a, b) == <<a, b>> \in L.relations

\* join: the first upper bound, in iteration order, below all upper bounds
join(L, a, b) ==
    IF a \notin L.elements \/ b \notin L.elements THEN Raise("ValueError")
    ELSE LET upper_bounds == { x \in L.elements :
                                 is_less_than_or_equal(L, a, x) /\ is_less_than_or_equal(L, b, x) }
             least == { x \in upper_bounds :
                          \A y \in upper_bounds : is_less_than_or_equal(L, x, y) }
         IN IF upper_bounds = {} THEN Raise("ValueError")
            ELSE IF least # {} THEN Ok(FirstOf(L, least))
            ELSE Raise("ValueError")

\* meet: the first lower bound, in iteration order, above all lower bounds
meet(L, a, b) ==
    IF a \notin L.elements \/ b \notin L.elements THEN Raise("ValueError")
    ELSE LET lower_bounds == { x \in L.elements :
                                 is_less_than_or_equal(L, x, a) /\ is_less_than_or_equal(L, x, b) }
             greatest == { x \in lower_bounds :
                             \A y \in lower_bounds : is_less_than_or_equal(L, y, x) }
         IN IF lower_bounds = {} THEN Raise("ValueError")
            ELSE IF greatest # {} THEN Ok(FirstOf(L, greatest))
            ELSE Raise("ValueError")

\* for element in subset_list: lower = self.meet(lower, element)
\* (r is bound by a set so that each step's outcome is computed once)
RECURSIVE meet_fold(_, _, _)
meet_fold(L, lower, rest) ==
    IF rest = <<>> THEN Ok(lower)
    ELSE CHOOSE out \in { IF r.exc # "none" THEN r ELSE meet_fold(L, r.value, Tail(rest)) :
                           r \in {meet(L, lower, Head(rest))} } : TRUE

RECURSIVE join_fold(_, _, _)
join_fold(L, greatest, rest) ==
    IF rest = <<>> THEN Ok(greatest)
    ELSE CHOOSE out \in { IF r.exc # "none" THEN r ELSE join_fold(L, r.value, Tail(rest)) :
                           r \in {join(L, greatest, Head(rest))} } : TRUE

\* reading self.top or self.bottom before __init__ assigned it
attr(v) == IF v = NoAttr THEN Raise("AttributeError") ELSE Ok(v)

meet_set_wrong_neutral(L, subset) ==
    LET subset_list == list(L, subset)
    IN IF subset_list = <<>> THEN attr(L.bottom)
       ELSE meet_fold(L, subset_list[1], subset_list)

meet_set(L, subset) ==
    LET subset_list == list(L, subset)
    IN IF subset_list = <<>> THEN attr(L.top)
       ELSE meet_fold(L, subset_list[1], subset_list)

join_set(L, subset) ==
    LET subset_list == list(L, subset)
    IN IF subset_list = <<>> THEN attr(L.bottom)
       ELSE join_fold(L, subset_list[1], subset_list)

check_is_lattice(L) ==
    \A x \in L.elements : \A y \in L.elements :
        meet(L, x, y).exc = "none" /\ join(L, x, y).exc = "none"

\* Lattice.__init__: the outcome's value is the constructed object.  bottom is
\* assigned before top is computed; join_set reads bottom only for an empty set,
\* and then meet_set has already raised on the unassigned top.
Lattice_init(name, elements, relations, order) ==
    LET L0 == [name |-> name, elements |-> elements, relations |-> relations,
               order |-> order, bottom |-> NoAttr, top |-> NoAttr]
    IN IF ~check_is_lattice(L0) THEN Raise("ValueError")
       ELSE CHOOSE out \in
              { IF b.exc # "none" THEN Raise(b.exc)
                ELSE IF t.exc # "none" THEN Raise(t.exc)
                ELSE Ok([L0 EXCEPT !.bottom = b.value, !.top = t.value]) :
                b \in {meet_set(L0, elements)}, t \in {join_set(L0, elements)} } : TRUE

\* ---- a stand-alone Lattice and calls of its operations ----
IdleModel ==
    /\ worlds = {}
    /\ initial_state = 0
    /\ accessibility_relation = <<>>
    /\ name_short = <<>>
    /\ world_lattice = <<>>
IdleWorld == assignments = <<>>
\* negation_map, implication_map and filter left to their defaults (None: an
\* empty dict, an empty set); no World of a Model.  A sublattice without an
\* entry in sub_negation_map was constructed without a negation_map.
NoTables ==
    /\ negation_map = <<>>
    /\ implication_map = <<>>
    /\ filter = {}
    /\ world_assignments = <<>>
    /\ sub_negation_map = <<>>

InitLattice ==
    /\ \E els \in SUBSET (1..MaxElems) : \E rel \in SUBSET (els \X els) :
          \E ord \in IterOrders(1..MaxElems) : \E c \in {Lattice_init("L", els, rel, ord)} :
             c.exc = "none" /\ lattice = c.value
    /\ comp_sub_lat = <<>>
    /\ IdleModel
    /\ IdleWorld
    /\ NoTables
    /\ call = NoCall

CallMeet ==
    /\ \E a, b \in 1..MaxElems :
          call' = [op |-> "meet", args |-> <<a, b>>, result |-> meet(lattice, a, b)]
    /\ UNCHANGED <<lattice, comp_sub_lat, worlds, initial_state,
                   accessibility_relation, name_short, world_lattice, assignments, tables>>

CallJoin ==
    /\ \E a, b \in 1..MaxElems :
          call' = [op |-> "join", args |-> <<a, b>>, result |-> join(lattice, a, b)]
    /\ UNCHANGED <<lattice, comp_sub_lat, worlds, initial_state,
                   accessibility_relation, name_short, world_lattice, assignments, tables>>

CallMeetSet ==
    /\ \E S \in SUBSET (1..MaxElems) :
          call' = [op |-> "meet_set", args |-> S, result |-> meet_set(lattice, S)]
    /\ UNCHANGED <<lattice, comp_sub_lat, worlds, initial_state,
                   accessibility_relation, name_short, world_lattice, assignments, tables>>

CallJoinSet ==
    /\ \E S \in SUBSET (1..MaxElems) :
          call' = [op |-> "join_set", args |-> S, result |-> join_set(lattice, S)]
    /\ UNCHANGED <<lattice, comp_sub_lat, worlds, initial_state,
                   accessibility_relation, name_short, world_lattice, assignments, tables>>

NextLattice == CallMeet \/ CallJoin \/ CallMeetSet \/ CallJoinSet

SpecLattice == InitLattice /\ [][NextLattice]_vars

\* ---- claims about the stand-alone Lattice ----
IsGLB(L, x, a, b) ==
    /\ x \in L.elements
    /\ is_less_than_or_equal(L, x, a) /\ is_less_than_or_equal(L, x, b)
    /\ \A y \in L.elements :
          (is_less_than_or_equal(L, y, a) /\ is_less_than_or_equal(L, y, b))
             => is_less_than_or_equal(L, y, x)
IsLUB(L, x, a, b) ==
    /\ x \in L.elements
    /\ is_less_than_or_equal(L, a, x) /\ is_less_than_or_equal(L, b, x)
    /\ \A y \in L.elements :
          (is_less_than_or_equal(L, a, y) /\ is_less_than_or_equal(L, b, y))
             => is_less_than_or_equal(L, x, y)

\* C1: in every Lattice that construction accepts, for all elements a, b:
\* meet(a,b) and join(a,b) return, the value returned is the only greatest lower
\* (least upper) bound of {a,b}, meet and join are commutative, and
\* meet(a,a) = a and join(a,a) = a.
C1_MeetJoinLaws ==
    \A a, b \in lattice.elements :
        /\ meet(lattice, a, b).exc = "none" /\ join(lattice, a, b).exc = "none"
        /\ \A x \in lattice.elements :
              /\ IsGLB(lattice, x, a, b) <=> x = meet(lattice, a, b).value
              /\ IsLUB(lattice, x, a, b) <=> x = join(lattice, a, b).value
        /\ meet(lattice, a, b) = meet(lattice, b, a)
        /\ join(lattice, a, b) = join(lattice, b, a)
        /\ meet(lattice, a, a) = Ok(a) /\ join(lattice, a, a) = Ok(a)

\* C2: in every Lattice that construction accepts, meet_set of the empty set
\* returns the lattice's top and join_set of the empty set returns its bottom.
C2_EmptySetNeutral ==
    /\ (call.op = "meet_set" /\ call.args = {}) => call.result = Ok(lattice.top)
    /\ (call.op = "join_set" /\ call.args = {}) => call.result = Ok(lattice.bottom)
    /\ lattice.top \in lattice.elements /\ lattice.bottom \in lattice.elements

\* a lattice whose top and bottom differ, after meet_set of the empty set returned
C2_Witness ==
    /\ call.op = "meet_set" /\ call.args = {} /\ call.result.exc = "none"
    /\ lattice.top # lattice.bottom

\* C19: construction fails whenever some pair of elements has no unique least
\* upper bound or no unique greatest lower bound (none, or more than one), so
\* every pair of a Lattice that was constructed has exactly one of each.
C19_ConstructedHasUniqueBounds ==
    \A x, y \in lattice.elements :
        /\ Cardinality({ z \in lattice.elements : IsLUB(lattice, z, x, y) }) = 1
        /\ Cardinality({ z \in lattice.elements : IsGLB(lattice, z, x, y) }) = 1

\* ---- Lattices of up to three elements, and the folds over their subsets ----
MaxFoldElems == 3   \* element ids are 1..MaxFoldElems

InitLatticeFold ==
    /\ \E els \in SUBSET (1..MaxFoldElems) : \E rel \in SUBSET (els \X els) :
          \E ord \in IterOrders(1..MaxFoldElems) : \E c \in {Lattice_init("L", els, rel, ord)} :
             c.exc = "none" /\ lattice = c.value
    /\ comp_sub_lat = <<>>
    /\ IdleModel
    /\ IdleWorld
    /\ NoTables
    /\ call = NoCall

FoldMeetSet ==
    /\ \E S \in SUBSET lattice.elements :
          call' = [op |-> "meet_set", args |-> S, result |-> meet_set(lattice, S)]
    /\ UNCHANGED <<lattice, comp_sub_lat, worlds, initial_state,
                   accessibility_relation, name_short, world_lattice, assignments, tables>>

FoldJoinSet ==
    /\ \E S \in SUBSET lattice.elements :
          call' = [op |-> "join_set", args |-> S, result |-> join_set(lattice, S)]
    /\ UNCHANGED <<lattice, comp_sub_lat, worlds, initial_state,
                   accessibility_relation, name_short, world_lattice, assignments, tables>>

NextLatticeFold == FoldMeetSet \/ FoldJoinSet

SpecLatticeFold == InitLatticeFold /\ [][NextLatticeFold]_vars

\* C29: in every Lattice that construction accepts, for every non-empty subset S
\* of its elements, meet_set(S) returns an element related below every element
\* of S and above every common lower bound of S, and join_set(S) dually, in
\* whatever order the fold visits S; bottom is related below every element and
\* every element below top.
C29_SetBoundsAreExtremal ==
    /\ \A S \in (SUBSET lattice.elements) \ {{}} :
         \A m \in {meet_set(lattice, S)} : \A j \in {join_set(lattice, S)} :
            /\ m.exc = "none" /\ j.exc = "none"
            /\ \A x \in S : is_less_than_or_equal(lattice, m.value, x)
            /\ \A y \in lattice.elements :
                  (\A x \in S : is_less_than_or_equal(lattice, y, x))
                     => is_less_than_or_equal(lattice, y, m.value)
            /\ \A x \in S : is_less_than_or_equal(lattice, x, j.value)
            /\ \A y \in lattice.elements :
                  (\A x \in S : is_less_than_or_equal(lattice, x, y))
                     => is_less_than_or_equal(lattice, j.value, y)
    /\ \A x \in lattice.elements :
          /\ is_less_than_or_equal(lattice, lattice.bottom, x)
          /\ is_less_than_or_equal(lattice, x, lattice.top)

\* ---- ManyLattice ----
\* The ManyLattice is "lattice" (its own fields, the base) and "comp_sub_lat".
registered_names == { comp_sub_lat[i].name : i \in DOMAIN comp_sub_lat }

down_interpretation_no_shortcut(lat, element_a) ==
    IF lat.name \notin registered_names THEN Raise("ValueError")
    ELSE LET lower_set == { x \in lat.elements : is_less_than_or_equal(lattice, x, element_a) }
         IN IF lower_set = {} THEN Ok(lat.bottom) ELSE join_set(lat, lower_set)

down_interpretation(lat, element_a) ==
    IF lat.name \notin registered_names THEN Raise("ValueError")
    ELSE IF element_a \in lat.elements THEN Ok(element_a)
    ELSE LET lower_set == { x \in lat.elements : is_less_than_or_equal(lattice, x, element_a) }
         IN IF lower_set = {} THEN Ok(lat.bottom) ELSE join_set(lat, lower_set)

\* the interpretation with the member shortcut taken before the name is looked up
up_interpretation_member_first(lat, element_a) ==
    IF element_a \in lat.elements THEN Ok(element_a)
    ELSE IF lat.name \notin registered_names THEN Raise("ValueError")
    ELSE LET upper_set == { x \in lat.elements : is_less_than_or_equal(lattice, element_a, x) }
         IN IF upper_set = {} THEN Ok(lat.top) ELSE meet_set(lat, upper_set)

up_interpretation(lat, element_a) ==
    IF lat.name \notin registered_names THEN Raise("ValueError")
    ELSE IF element_a \in lat.elements THEN Ok(element_a)
    ELSE LET upper_set == { x \in lat.elements : is_less_than_or_equal(lattice, element_a, x) }
         IN IF upper_set = {} THEN Ok(lat.top) ELSE meet_set(lat, upper_set)

\* The Lattice objects a caller can pass: a registered one, or one that is no
\* member of comp_sub_lat and has another name.
ArgLattices ==
    { comp_sub_lat[i] : i \in DOMAIN comp_sub_lat }
        \cup { [comp_sub_lat[i] EXCEPT !.name = "M"] : i \in DOMAIN comp_sub_lat }

\* ManyLattice.__init__ with one sublattice, built before by Lattice.__init__;
\* comp_sub_lat is stored as given.  One process iterates equal sets alike, so
\* the base and the sublattice share the iteration order.
InitManyLattice ==
    /\ \E ord \in IterOrders(1..MaxElems) :
        \E els \in SUBSET (1..MaxElems) : \E rel \in SUBSET (els \X els) :
        \E c \in {Lattice_init("L", els, rel, ord)} :
           /\ c.exc = "none"
           /\ lattice = c.value
           /\ \E sels \in SUBSET (1..MaxElems) : \E srel \in SUBSET (sels \X sels) :
              \E sc \in {Lattice_init("K", sels, srel, ord)} :
                 sc.exc = "none" /\ comp_sub_lat = <<sc.value>>
    /\ IdleModel
    /\ IdleWorld
    /\ NoTables
    /\ call = NoCall

\* down_interpretation and up_interpretation leave the ManyLattice as it is: a
\* behaviour is one call on a ManyLattice just built.
CallDownInterpretation ==
    /\ call = NoCall
    /\ \E lat \in ArgLattices : \E a \in 1..MaxElems :
          call' = [op |-> "down_interpretation", args |-> <<lat, a>>,
                   result |-> down_interpretation(lat, a)]
    /\ UNCHANGED <<lattice, comp_sub_lat, worlds, initial_state,
                   accessibility_relation, name_short, world_lattice, assignments, tables>>

CallUpInterpretation ==
    /\ call = NoCall
    /\ \E lat \in ArgLattices : \E a \in 1..MaxElems :
          call' = [op |-> "up_interpretation", args |-> <<lat, a>>,
                   result |-> up_interpretation(lat, a)]
    /\ UNCHANGED <<lattice, comp_sub_lat, worlds, initial_state,
                   accessibility_relation, name_short, world_lattice, assignments, tables>>

\* get_comp_sub_lattice: the first registered lattice of that name, or None
NoLattice == <<>>
get_comp_sub_lattice(name) ==
    IF \E i \in DOMAIN comp_sub_lat : comp_sub_lat[i].name = name
    THEN comp_sub_lat[CHOOSE i \in DOMAIN comp_sub_lat :
                         /\ comp_sub_lat[i].name = name
                         /\ \A j \in DOMAIN comp_sub_lat :
                               comp_sub_lat[j].name = name => i <= j]
    ELSE NoLattice

\* add_comp_sub_lat without the look-up of the name: every lattice is appended
add_comp_sub_lat_no_lookup(lat) ==
    /\ comp_sub_lat' = Append(comp_sub_lat, lat)
    /\ call' = [op |-> "add_comp_sub_lat", args |-> <<lat>>, result |-> Ok(0)]

\* add_comp_sub_lat: a name already registered is refused, anything else appended
add_comp_sub_lat(lat) ==
    IF get_comp_sub_lattice(lat.name) # NoLattice
    THEN /\ call' = [op |-> "add_comp_sub_lat", args |-> <<lat>>,
                      result |-> Raise("ValueError")]
         /\ UNCHANGED comp_sub_lat
    ELSE /\ comp_sub_lat' = Append(comp_sub_lat, lat)
         /\ call' = [op |-> "add_comp_sub_lat", args |-> <<lat>>, result |-> Ok(0)]

CallAddCompSubLat ==
    /\ call = NoCall
    /\ \E lat \in ArgLattices : add_comp_sub_lat(lat)
    /\ UNCHANGED <<lattice, worlds, initial_state, accessibility_relation,
                   name_short, world_lattice, assignments, tables>>

NextManyLattice == CallDownInterpretation \/ CallUpInterpretation \/ CallAddCompSubLat

SpecManyLattice == InitManyLattice /\ [][NextManyLattice]_vars

\* ---- claims about the interpretations ----
IsInterpretation == call.op \in {"down_interpretation", "up_interpretation"}

\* C3: for a registered sublattice L and an element a of L, down_interpretation(L, a)
\* and up_interpretation(L, a) return a.
C3_IdentityOnMembers ==
    (/\ IsInterpretation
     /\ call.args[1].name \in registered_names
     /\ call.args[2] \in call.args[1].elements)
        => call.result = Ok(call.args[2])

\* down_interpretation returned for a member of L that the base does not relate
\* to itself, so that the set of L's elements below it would not give it back
C3_Witness ==
    /\ call.op = "down_interpretation"
    /\ call.args[1].name \in registered_names
    /\ call.args[2] \in call.args[1].elements
    /\ ~is_less_than_or_equal(lattice, call.args[2], call.args[2])
    /\ call.result.exc = "none"

\* C4: for every registered sublattice L and all base elements a, b with a <= b in
\* the base relations, both interpretations return and their values for a and b
\* are related in L.relations.
C4_Monotone ==
    \A i \in DOMAIN comp_sub_lat : \A a, b \in lattice.elements :
        is_less_than_or_equal(lattice, a, b) =>
            LET L == comp_sub_lat[i]
            IN /\ down_interpretation(L, a).exc = "none" /\ down_interpretation(L, b).exc = "none"
               /\ up_interpretation(L, a).exc = "none" /\ up_interpretation(L, b).exc = "none"
               /\ is_less_than_or_equal(L, down_interpretation(L, a).value,
                                           down_interpretation(L, b).value)
               /\ is_less_than_or_equal(L, up_interpretation(L, a).value,
                                           up_interpretation(L, b).value)

\* C11: after construction and after any add_comp_sub_lat calls, the elements of
\* every registered complete sublattice are elements of the base lattice.
C11_SublatticeElementsInBase ==
    \A i \in DOMAIN comp_sub_lat : comp_sub_lat[i].elements \subseteq lattice.elements

\* C20: down_interpretation(L, a) and up_interpretation(L, a) raise whenever no
\* registered lattice has L's name, also for a member a of L; they return a value
\* only for a name-registered L.
C20_UnregisteredRaises ==
    IsInterpretation =>
        /\ (\A i \in DOMAIN comp_sub_lat : comp_sub_lat[i].name # call.args[1].name)
              => call.result.exc # "none"
        /\ call.result.exc = "none"
              => \E i \in DOMAIN comp_sub_lat : comp_sub_lat[i].name = call.args[1].name

\* up_interpretation raised for a lattice of an unregistered name and one of
\* that lattice's own elements
C20_Witness ==
    /\ call.op = "up_interpretation"
    /\ \A i \in DOMAIN comp_sub_lat : comp_sub_lat[i].name # call.args[1].name
    /\ call.args[2] \in call.args[1].elements
    /\ call.result.exc = "ValueError"

\* ---- a ManyLattice that sublattices are added to, call after call ----
\* The Lattice objects passed are the registered ones under any of three names.
SubLatticeNames == {"K", "M", "N"}
NamedLattices ==
    { [comp_sub_lat[i] EXCEPT !.name = n] : i \in DOMAIN comp_sub_lat, n \in SubLatticeNames }

AddCompSubLat ==
    /\ \E lat \in NamedLattices : add_comp_sub_lat(lat)
    /\ UNCHANGED <<lattice, worlds, initial_state, accessibility_relation,
                   name_short, world_lattice, assignments, tables>>

NextSubLattices == AddCompSubLat

SpecSubLattices == InitManyLattice /\ [][NextSubLattices]_vars

\* C21: add_comp_sub_lat(L) raises and leaves comp_sub_lat as it was when a
\* registered lattice has L's name; and, from a list of pairwise distinct names,
\* after any sequence of add_comp_sub_lat calls the registered names are pairwise
\* distinct, so that a name identifies at most one registered lattice.
C21_NamesStayDistinct ==
    /\ [][ (/\ call'.op = "add_comp_sub_lat"
            /\ \E i \in DOMAIN comp_sub_lat : comp_sub_lat[i].name = call'.args[1].name)
              => /\ call'.result.exc = "ValueError"
                 /\ UNCHANGED comp_sub_lat ]_vars
    /\ [](\A i, j \in DOMAIN comp_sub_lat :
             comp_sub_lat[i].name = comp_sub_lat[j].name => i = j)
    /\ [](\A n \in SubLatticeNames :
             Cardinality({ i \in DOMAIN comp_sub_lat :
                             comp_sub_lat[i] = get_comp_sub_lattice(n) }) <= 1)

\* three lattices are registered, and the last call, of a name already there,
\* raised
C21_Witness ==
    /\ Len(comp_sub_lat) = 3
    /\ call.op = "add_comp_sub_lat" /\ call.result.exc = "ValueError"
    /\ call.args[1].name \in registered_names

\* ---- Model ----
\* World objects are 1..MaxWorlds; a World is hashed by identity, so two objects
\* with equal fields are two members of a set.  name_short[w] and
\* world_lattice[w] (the name of w.lattice) are w's fields.  NoWorld is Python's
\* None where a World is expected.
Worlds == 1..MaxWorlds
ShortNames == {"u", "v"}
LatticeNames == {"K", "M"}
NoWorld == 0

\* dict.get(key) of accessibility_relation, with the default given
acc_get(w, default) ==
    IF w \in DOMAIN accessibility_relation THEN accessibility_relation[w] ELSE default

\* get_world returns the first world of that short name that iterating the set
\* "worlds" meets: any of them, when several have the name.
get_world(name) ==
    IF \E w \in worlds : name_short[w] = name
    THEN { w \in worlds : name_short[w] = name }
    ELSE {NoWorld}

\* Model.__init__: every world without an entry gets an empty one
Model_init(ws, init, acc) ==
    /\ worlds = ws
    /\ initial_state = init
    /\ accessibility_relation =
          [w \in DOMAIN acc \cup ws |-> IF w \in DOMAIN acc THEN acc[w] ELSE {}]

\* the accessibility relations a caller can pass: None (an empty defaultdict) or
\* any dict from World objects to sets of World objects
NoDict == <<>>
AccArgs == UNION { [K -> SUBSET Worlds] : K \in SUBSET Worlds }

\* The many_lattice of the model: a base with one registered sublattice "K".
\* A World's lattice is named "K", or "M", which is not registered.
InitModelObjects ==
    /\ \E c \in {Lattice_init("L", {1}, {<<1, 1>>}, <<1>>)} :
       \E k \in {Lattice_init("K", {1}, {<<1, 1>>}, <<1>>)} :
          lattice = c.value /\ comp_sub_lat = <<k.value>>
    /\ name_short \in [Worlds -> ShortNames]
    /\ world_lattice \in [Worlds -> LatticeNames]
    /\ IdleWorld
    /\ NoTables
    /\ call = NoCall

\* The initial_state argument.  World objects are interchangeable (their names
\* and lattices range over all assignments, "worlds" over all sets), so one
\* object stands for any: the worlds argument may or may not contain it.
InitialStateArg == CHOOSE w \in Worlds : TRUE

\* Model(name, many_lattice, worlds, initial_state): no accessibility relation
InitModel ==
    /\ InitModelObjects
    /\ \E ws \in SUBSET Worlds : Model_init(ws, InitialStateArg, NoDict)

\* Model(name, many_lattice, worlds, initial_state, assessibility_relation)
InitModelDict ==
    /\ InitModelObjects
    /\ \E ws \in SUBSET Worlds : \E acc \in AccArgs :
          Model_init(ws, InitialStateArg, acc)

add_world(world) ==
    IF get_world(name_short[world]) # {NoWorld}
    THEN /\ call' = [op |-> "add_world", args |-> <<world>>, result |-> Raise("ValueError")]
         /\ UNCHANGED <<worlds, accessibility_relation>>
    ELSE IF world_lattice[world] \notin registered_names
    THEN /\ call' = [op |-> "add_world", args |-> <<world>>, result |-> Raise("Exception")]
         /\ UNCHANGED <<worlds, accessibility_relation>>
    ELSE /\ worlds' = worlds \cup {world}
         /\ accessibility_relation' =
               IF world \in DOMAIN accessibility_relation THEN accessibility_relation
               ELSE [w \in DOMAIN accessibility_relation \cup {world} |->
                        IF w = world THEN {} ELSE accessibility_relation[w]]
         /\ call' = [op |-> "add_world", args |-> <<world>>, result |-> Ok(0)]

delete_world_no_incoming_check(world) ==
    IF acc_get(world, {}) # {}
    THEN /\ call' = [op |-> "delete_world", args |-> <<world>>, result |-> Raise("ValueError")]
         /\ UNCHANGED <<worlds, accessibility_relation>>
    ELSE /\ accessibility_relation' =
               [w \in DOMAIN accessibility_relation \ {world} |-> accessibility_relation[w]]
         /\ IF world \in worlds
            THEN /\ worlds' = worlds \ {world}
                 /\ call' = [op |-> "delete_world", args |-> <<world>>, result |-> Ok(0)]
            ELSE /\ worlds' = worlds
                 /\ call' = [op |-> "delete_world", args |-> <<world>>,
                              result |-> Raise("KeyError")]

\* delete_world that leaves the world's entry in accessibility_relation
delete_world_keeps_entry(world) ==
    IF acc_get(world, {}) # {}
    THEN /\ call' = [op |-> "delete_world", args |-> <<world>>, result |-> Raise("ValueError")]
         /\ UNCHANGED <<worlds, accessibility_relation>>
    ELSE IF \E other_world \in DOMAIN accessibility_relation :
               world \in accessibility_relation[other_world]
    THEN /\ call' = [op |-> "delete_world", args |-> <<world>>, result |-> Raise("ValueError")]
         /\ UNCHANGED <<worlds, accessibility_relation>>
    ELSE /\ UNCHANGED accessibility_relation
         /\ IF world \in worlds
            THEN /\ worlds' = worlds \ {world}
                 /\ call' = [op |-> "delete_world", args |-> <<world>>, result |-> Ok(0)]
            ELSE /\ worlds' = worlds
                 /\ call' = [op |-> "delete_world", args |-> <<world>>,
                              result |-> Raise("KeyError")]

\* A world that is no member but has an (empty, untargeted) entry loses the
\* entry before worlds.remove raises KeyError.
delete_world(world) ==
    IF acc_get(world, {}) # {}
    THEN /\ call' = [op |-> "delete_world", args |-> <<world>>, result |-> Raise("ValueError")]
         /\ UNCHANGED <<worlds, accessibility_relation>>
    ELSE IF \E other_world \in DOMAIN accessibility_relation :
               world \in accessibility_relation[other_world]
    THEN /\ call' = [op |-> "delete_world", args |-> <<world>>, result |-> Raise("ValueError")]
         /\ UNCHANGED <<worlds, accessibility_relation>>
    ELSE /\ accessibility_relation' =
               [w \in DOMAIN accessibility_relation \ {world} |-> accessibility_relation[w]]
         /\ IF world \in worlds
            THEN /\ worlds' = worlds \ {world}
                 /\ call' = [op |-> "delete_world", args |-> <<world>>, result |-> Ok(0)]
            ELSE /\ worlds' = worlds
                 /\ call' = [op |-> "delete_world", args |-> <<world>>,
                              result |-> Raise("KeyError")]

add_relation(world1_name, world2_name) ==
    \E world1 \in get_world(world1_name) : \E world2 \in get_world(world2_name) :
        IF world1 = NoWorld \/ world2 = NoWorld
        THEN /\ call' = [op |-> "add_relation", args |-> <<world1_name, world2_name>>,
                          result |-> Raise("ValueError")]
             /\ UNCHANGED <<worlds, accessibility_relation>>
        ELSE /\ accessibility_relation' =
                   [accessibility_relation EXCEPT ![world1] = @ \cup {world2}]
             /\ call' = [op |-> "add_relation", args |-> <<world1_name, world2_name>>,
                          result |-> Ok(0)]
             /\ UNCHANGED worlds

delete_relation(world1_name, world2_name) ==
    \E world1 \in get_world(world1_name) : \E world2 \in get_world(world2_name) :
        IF world1 = NoWorld \/ world2 = NoWorld
        THEN /\ call' = [op |-> "delete_relation", args |-> <<world1_name, world2_name>>,
                          result |-> Raise("ValueError")]
             /\ UNCHANGED <<worlds, accessibility_relation>>
        ELSE IF world2 \notin accessibility_relation[world1]
        THEN /\ call' = [op |-> "delete_relation", args |-> <<world1_name, world2_name>>,
                          result |-> Raise("ValueError")]
             /\ UNCHANGED <<worlds, accessibility_relation>>
        ELSE /\ accessibility_relation' =
                   [accessibility_relation EXCEPT ![world1] = @ \ {world2}]
             /\ call' = [op |-> "delete_relation", args |-> <<world1_name, world2_name>>,
                          result |-> Ok(0)]
             /\ UNCHANGED worlds

ModelFrame == UNCHANGED <<lattice, comp_sub_lat, initial_state, name_short, world_lattice,
                          assignments, tables>>

AddWorld == (\E world \in Worlds : add_world(world)) /\ ModelFrame
DeleteWorld == (\E world \in Worlds : delete_world(world)) /\ ModelFrame
AddRelation == (\E n1, n2 \in ShortNames : add_relation(n1, n2)) /\ ModelFrame
DeleteRelation == (\E n1, n2 \in ShortNames : delete_relation(n1, n2)) /\ ModelFrame

Next == AddWorld \/ DeleteWorld \/ AddRelation \/ DeleteRelation

Spec == InitModel /\ [][Next]_vars
SpecModelDict == InitModelDict /\ [][Next]_vars

\* ---- claims about the Model ----
\* C5: in every state reachable from Model construction by add_world, delete_world,
\* add_relation and delete_relation calls, the keys of accessibility_relation are
\* exactly the worlds.
C5_KeysAreWorlds == DOMAIN accessibility_relation = worlds

HasEdges(w) ==
    \/ acc_get(w, {}) # {}
    \/ \E other \in DOMAIN accessibility_relation : w \in accessibility_relation[other]
Edge(w1, w2) == w1 \in DOMAIN accessibility_relation /\ w2 \in accessibility_relation[w1]

\* C6: delete_world(w) raises an error and removes nothing when w has an outgoing
\* or an incoming edge; a world leaves "worlds" only by a delete_world call made
\* when it has no edge; and an edge goes away only by a delete_relation call.
C6_DeleteWorldNeedsNoEdges ==
    [][ /\ \A w \in Worlds :
            /\ (call'.op = "delete_world" /\ call'.args = <<w>> /\ HasEdges(w))
                  => /\ call'.result.exc = "ValueError"
                     /\ UNCHANGED <<worlds, accessibility_relation>>
            /\ (w \in worlds /\ w \notin worlds')
                  => /\ call'.op = "delete_world" /\ call'.args = <<w>>
                     /\ call'.result.exc = "none"
                     /\ ~HasEdges(w)
        /\ \A w1, w2 \in Worlds :
            (Edge(w1, w2) /\ ~Edge(w1, w2)') => call'.op = "delete_relation"
      ]_vars

\* delete_world raised for a member world that has no outgoing edge but is the
\* target of another world's edge
C6_Witness ==
    /\ call.op = "delete_world" /\ call.result.exc = "ValueError"
    /\ call.args[1] \in worlds
    /\ acc_get(call.args[1], {}) = {}
    /\ \E other \in worlds \ {call.args[1]} : Edge(other, call.args[1])

\* C7: in every reachable Model state the lattice of every world in "worlds" has
\* the name of a lattice in many_lattice.comp_sub_lat.
C7_WorldLatticesRegistered == \A w \in worlds : world_lattice[w] \in registered_names

\* C8: in every reachable Model state initial_state is a member of "worlds".
C8_InitialStateIsWorld == initial_state \in worlds

\* C9: in every reachable Model state no two distinct worlds have the same short
\* name, and an add_world that returned added a world whose short name no other
\* world has.
C9_UniqueShortNames ==
    /\ \A w1, w2 \in worlds : name_short[w1] = name_short[w2] => w1 = w2
    /\ (call.op = "add_world" /\ call.result.exc = "none")
          => \A w \in worlds \ {call.args[1]} : name_short[w] # name_short[call.args[1]]

\* C28: whenever add_world, delete_world, add_relation or delete_relation raises,
\* "worlds" and accessibility_relation are as they were before the call.
C28_ErrorsLeaveModel ==
    [][ (call'.op \in {"add_world", "delete_world", "add_relation", "delete_relation"}
            /\ call'.result.exc # "none")
          => UNCHANGED <<worlds, accessibility_relation>> ]_vars

\* C30: from a Model constructed without an accessibility relation, after any
\* add_world, delete_world, add_relation and delete_relation calls every edge
\* has its source and its target in "worlds"; and after a delete_world(w) that
\* returned, w is no world, no key and no target of an edge.
C30_NoDanglingEdges ==
    /\ \A w1 \in DOMAIN accessibility_relation : \A w2 \in accessibility_relation[w1] :
          w1 \in worlds /\ w2 \in worlds
    /\ (call.op = "delete_world" /\ call.result.exc = "none")
          => /\ call.args[1] \notin worlds
             /\ call.args[1] \notin DOMAIN accessibility_relation
             /\ \A w1 \in DOMAIN accessibility_relation :
                   call.args[1] \notin accessibility_relation[w1]

\* delete_world returned and left a world that has an edge
C30_Witness ==
    /\ call.op = "delete_world" /\ call.result.exc = "none"
    /\ \E w \in worlds : w # call.args[1] /\ Edge(w, w)

\* ---- World ----
\* The World's lattice is "lattice"; "assignments" maps proposition names to values.
Props == 1..MaxProps
Values == 1..MaxElems

\* World.__init__ stores the assignments it is given (None: an empty dict)
InitWorld ==
    /\ \E ord \in IterOrders(1..MaxElems) :
       \E els \in SUBSET (1..MaxElems) : \E rel \in SUBSET (els \X els) :
       \E c \in {Lattice_init("K", els, rel, ord)} : c.exc = "none" /\ lattice = c.value
    /\ assignments \in UNION { [D -> Values] : D \in SUBSET Props }
    /\ comp_sub_lat = <<>>
    /\ IdleModel
    /\ NoTables
    /\ call = NoCall

assign_value(variable, value) ==
    IF value \notin lattice.elements
    THEN /\ call' = [op |-> "assign_value", args |-> <<variable, value>>,
                      result |-> Raise("ValueError")]
         /\ UNCHANGED assignments
    ELSE /\ assignments' = [v \in DOMAIN assignments \cup {variable} |->
                               IF v = variable THEN value ELSE assignments[v]]
         /\ call' = [op |-> "assign_value", args |-> <<variable, value>>, result |-> Ok(0)]

AssignValue ==
    /\ \E variable \in Props : \E value \in Values : assign_value(variable, value)
    /\ UNCHANGED <<lattice, comp_sub_lat, worlds, initial_state, accessibility_relation,
                   name_short, world_lattice, tables>>

NextWorld == AssignValue

SpecWorld == InitWorld /\ [][NextWorld]_vars

\* C10: after construction and after any sequence of assign_value calls every value
\* in "assignments" is an element of the world's lattice, and an assign_value that
\* raised had a value outside lattice.elements.
C10_AssignmentsInLattice ==
    /\ \A variable \in DOMAIN assignments : assignments[variable] \in lattice.elements
    /\ (call.op = "assign_value" /\ call.result.exc # "none")
          => call.args[2] \notin lattice.elements

\* ---- formulas: the AST nodes ----
\* An atom's name is the run of characters that spells it.
Atom(name) == [type |-> "Atom", name |-> name]
Not(child) == [type |-> "Not", child |-> child]
And(left, right) == [type |-> "And", left |-> left, right |-> right]
Or(left, right) == [type |-> "Or", left |-> left, right |-> right]
Implies(left, right) == [type |-> "Implies", left |-> left, right |-> right]
Iff(left, right) == [type |-> "Iff", left |-> left, right |-> right]
Box(child) == [type |-> "Box", child |-> child]
Diamond(child) == [type |-> "Diamond", child |-> child]
NoNode == [type |-> "None"]

\* ---- Lexer ----
\* A text is a sequence of characters; pos counts from 1 (text[pos] is Python's
\* text[pos - 1]); NoChar is the None that current_char holds past the end.
NoChar == ""
isalnum(c) == c \in {"p", "q"}
isspace(c) == c = " "
current_char(text, pos) == IF pos <= Len(text) THEN text[pos] ELSE NoChar

\* a token and the lexer's position after it, or the ValueError raised
Token(type, value, pos) == [exc |-> "none", type |-> type, value |-> value, pos |-> pos]
LexError(pos) == [exc |-> "ValueError", type |-> "", value |-> <<>>, pos |-> pos]

RECURSIVE skip_whitespace(_, _)
skip_whitespace(text, pos) ==
    IF isspace(current_char(text, pos)) THEN skip_whitespace(text, pos + 1) ELSE pos

RECURSIVE get_atom(_, _, _)
get_atom(text, pos, result) ==
    IF isalnum(current_char(text, pos))
    THEN get_atom(text, pos + 1, Append(result, current_char(text, pos)))
    ELSE Token("ATOM", result, pos)

RECURSIVE get_next_token(_, _)
get_next_token(text, pos) ==
    LET c == current_char(text, pos)
        c1 == current_char(text, pos + 1)
        c2 == current_char(text, pos + 2)
    IN IF c = NoChar THEN Token("EOF", <<>>, pos)
       ELSE IF isspace(c) THEN get_next_token(text, skip_whitespace(text, pos))
       ELSE IF isalnum(c) THEN get_atom(text, pos, <<>>)
       ELSE IF c = "~" THEN Token("NOT", <<"~">>, pos + 1)
       ELSE IF c = "["
            THEN IF c1 = "]" THEN Token("BOX", <<"[", "]">>, pos + 2) ELSE LexError(pos + 1)
       ELSE IF c = "<"
            THEN IF c1 = ">" THEN Token("DIAMOND", <<"<", ">">>, pos + 2)
                 ELSE IF c1 = "-"
                      THEN IF c2 = ">" THEN Token("IFF", <<"<", "-", ">">>, pos + 3)
                           ELSE LexError(pos + 2)
                 ELSE LexError(pos + 1)
       ELSE IF c = "-"
            THEN IF c1 = ">" THEN Token("IMPLIES", <<"-", ">">>, pos + 2) ELSE LexError(pos + 1)
       ELSE IF c = "&" THEN Token("AND", <<"&">>, pos + 1)
       ELSE IF c = "|" THEN Token("OR", <<"|">>, pos + 1)
       ELSE IF c = "(" THEN Token("LPAREN", <<"(">>, pos + 1)
       ELSE IF c = ")" THEN Token("RPAREN", <<")">>, pos + 1)
       ELSE LexError(pos)

\* ---- FormulaParser ----
\* The parser's state is its current token, which carries the lexer's position.
\* A parsing method's outcome is the node built and the state left, or the
\* ValueError raised.
Parsed(node, tok) == [exc |-> "none", node |-> node, tok |-> tok]
ParseError == [exc |-> "ValueError", node |-> NoNode, tok |-> LexError(0)]

\* eat: the next token when the current one has the expected type
eat(text, tok, token_type) ==
    IF tok.type = token_type
    THEN CHOOSE out \in { IF t.exc # "none" THEN ParseError ELSE Parsed(NoNode, t) :
                           t \in {get_next_token(text, tok.pos)} } : TRUE
    ELSE ParseError

RECURSIVE iff(_, _), iff_loop(_, _, _), implies(_, _), implies_loop(_, _, _)
RECURSIVE or_expr(_, _), or_loop(_, _, _), and_expr(_, _), and_loop(_, _, _), unary(_, _)

\* while self.current_token[0] == 'IFF': node = Iff(node, self.implies())
iff_loop(text, node, tok) ==
    IF tok.type # "IFF" THEN Parsed(node, tok)
    ELSE CHOOSE out \in
           { IF e.exc # "none" THEN ParseError
             ELSE CHOOSE out2 \in
                    { IF r.exc # "none" THEN ParseError
                      ELSE iff_loop(text, Iff(node, r.node), r.tok) :
                      r \in {implies(text, e.tok)} } : TRUE :
             e \in {eat(text, tok, "IFF")} } : TRUE

iff(text, tok) ==
    CHOOSE out \in { IF n.exc # "none" THEN ParseError ELSE iff_loop(text, n.node, n.tok) :
                     n \in {implies(text, tok)} } : TRUE

\* the loop of implies folding to the right: p -> (q -> r)
implies_loop_right(text, node, tok) ==
    IF tok.type # "IMPLIES" THEN Parsed(node, tok)
    ELSE CHOOSE out \in
           { IF e.exc # "none" THEN ParseError
             ELSE CHOOSE out2 \in
                    { IF r.exc # "none" THEN ParseError
                      ELSE Parsed(Implies(node, r.node), r.tok) :
                      r \in {implies(text, e.tok)} } : TRUE :
             e \in {eat(text, tok, "IMPLIES")} } : TRUE

implies_loop(text, node, tok) ==
    IF tok.type # "IMPLIES" THEN Parsed(node, tok)
    ELSE CHOOSE out \in
           { IF e.exc # "none" THEN ParseError
             ELSE CHOOSE out2 \in
                    { IF r.exc # "none" THEN ParseError
                      ELSE implies_loop(text, Implies(node, r.node), r.tok) :
                      r \in {or_expr(text, e.tok)} } : TRUE :
             e \in {eat(text, tok, "IMPLIES")} } : TRUE

implies(text, tok) ==
    CHOOSE out \in { IF n.exc # "none" THEN ParseError ELSE implies_loop(text, n.node, n.tok) :
                     n \in {or_expr(text, tok)} } : TRUE

or_loop(text, node, tok) ==
    IF tok.type # "OR" THEN Parsed(node, tok)
    ELSE CHOOSE out \in
           { IF e.exc # "none" THEN ParseError
             ELSE CHOOSE out2 \in
                    { IF r.exc # "none" THEN ParseError
                      ELSE or_loop(text, Or(node, r.node), r.tok) :
                      r \in {and_expr(text, e.tok)} } : TRUE :
             e \in {eat(text, tok, "OR")} } : TRUE

or_expr(text, tok) ==
    CHOOSE out \in { IF n.exc # "none" THEN ParseError ELSE or_loop(text, n.node, n.tok) :
                     n \in {and_expr(text, tok)} } : TRUE

and_loop(text, node, tok) ==
    IF tok.type # "AND" THEN Parsed(node, tok)
    ELSE CHOOSE out \in
           { IF e.exc # "none" THEN ParseError
             ELSE CHOOSE out2 \in
                    { IF r.exc # "none" THEN ParseError
                      ELSE and_loop(text, And(node, r.node), r.tok) :
                      r \in {unary(text, e.tok)} } : TRUE :
             e \in {eat(text, tok, "AND")} } : TRUE

and_expr(text, tok) ==
    CHOOSE out \in { IF n.exc # "none" THEN ParseError ELSE and_loop(text, n.node, n.tok) :
                     n \in {unary(text, tok)} } : TRUE

\* eat of the token just tested cannot fail on the type, only in the lexer
unary(text, tok) ==
    IF tok.type \in {"NOT", "BOX", "DIAMOND"}
    THEN CHOOSE out \in
           { IF e.exc # "none" THEN ParseError
             ELSE CHOOSE out2 \in
                    { IF r.exc # "none" THEN ParseError
                      ELSE Parsed(CASE tok.type = "NOT" -> Not(r.node)
                                    [] tok.type = "BOX" -> Box(r.node)
                                    [] tok.type = "DIAMOND" -> Diamond(r.node), r.tok) :
                      r \in {unary(text, e.tok)} } : TRUE :
             e \in {eat(text, tok, tok.type)} } : TRUE
    ELSE IF tok.type = "LPAREN"
    THEN CHOOSE out \in
           { IF e.exc # "none" THEN ParseError
             ELSE CHOOSE out2 \in
                    { IF r.exc # "none" THEN ParseError
                      ELSE CHOOSE out3 \in
                             { IF c.exc # "none" THEN ParseError ELSE Parsed(r.node, c.tok) :
                               c \in {eat(text, r.tok, "RPAREN")} } : TRUE :
                      r \in {iff(text, e.tok)} } : TRUE :
             e \in {eat(text, tok, "LPAREN")} } : TRUE
    ELSE IF tok.type = "ATOM"
    THEN CHOOSE out \in
           { IF e.exc # "none" THEN ParseError ELSE Parsed(Atom(tok.value), e.tok) :
             e \in {eat(text, tok, "ATOM")} } : TRUE
    ELSE ParseError

\* parse without the test that the input is used up
parse_no_eof_check(text) ==
    CHOOSE out \in
      { IF t.exc # "none" THEN Raise("ValueError")
        ELSE CHOOSE out2 \in
               { IF r.exc # "none" THEN Raise("ValueError") ELSE Ok(r.node) :
                 r \in {iff(text, t)} } : TRUE :
        t \in {get_next_token(text, 1)} } : TRUE

\* FormulaParser(text).parse(): the constructor reads the first token
parse(text) ==
    CHOOSE out \in
      { IF t.exc # "none" THEN Raise("ValueError")
        ELSE CHOOSE out2 \in
               { IF r.exc # "none" THEN Raise("ValueError")
                 ELSE IF r.tok.type # "EOF" THEN Raise("ValueError")
                 ELSE Ok(r.node) :
                 r \in {iff(text, t)} } : TRUE :
        t \in {get_next_token(text, 1)} } : TRUE

\* The texts given to the parser: every run of at most MaxTextLen characters,
\* and every text that spells at most MaxTokens lexemes one after the other.
MaxTextLen == 3
MaxTokens == 5
Chars == {"p", "q", "~", "[", "]", "<", ">", "-", "&", "|", "(", ")", " "}
Lexemes == { <<"p">>, <<"q">>, <<"~">>, <<"[", "]">>, <<"<", ">">>, <<"&">>, <<"|">>,
             <<"-", ">">>, <<"<", "-", ">">>, <<"(">>, <<")">> }
RECURSIVE Spell(_)
Spell(lexemes) == IF lexemes = <<>> THEN <<>> ELSE Head(lexemes) \o Spell(Tail(lexemes))
\* no lattice, no many-lattice, no model: the parser works on the text alone
InitParser ==
    /\ lattice = NoLattice
    /\ comp_sub_lat = <<>>
    /\ IdleModel
    /\ IdleWorld
    /\ NoTables
    /\ call = NoCall

\* parsing reads the text and writes nothing: a behaviour is one call
Parse ==
    /\ call.op = "none"
    /\ \/ \E n \in 0..MaxTextLen : \E text \in [1..n -> Chars] :
             call' = [op |-> "parse", args |-> <<text>>, result |-> parse(text)]
       \/ \E n \in 0..MaxTokens : \E lexemes \in [1..n -> Lexemes] :
             call' = [op |-> "parse", args |-> <<Spell(lexemes)>>,
                      result |-> parse(Spell(lexemes))]
    /\ UNCHANGED <<lattice, comp_sub_lat, worlds, initial_state,
                   accessibility_relation, name_short, world_lattice, assignments, tables>>

NextParser == Parse

SpecParser == InitParser /\ [][NextParser]_vars

\* ---- claims about the parser ----
\* The grammar, read directly.  The tokens of a text are taken as a whole; a
\* level-k expression (k = 1: iff, 2: implies, 3: or, 4: and) is a level-k
\* expression, the level's operator and a level-(k+1) expression, or a
\* level-(k+1) expression alone; level 5 is unary.
RECURSIVE TokensFrom(_, _)
TokensFrom(text, pos) ==
    CHOOSE out \in
      { IF t.exc # "none" THEN <<t>>
        ELSE IF t.type = "EOF" THEN <<>>
        ELSE <<t>> \o TokensFrom(text, t.pos) :
        t \in {get_next_token(text, pos)} } : TRUE
Tokenizes(text) ==
    \A toks \in {TokensFrom(text, 1)} : \A i \in DOMAIN toks : toks[i].exc = "none"

LevelToken(k) == <<"IFF", "IMPLIES", "OR", "AND">>[k]
LevelNode(k, left, right) ==
    CASE k = 1 -> Iff(left, right)
      [] k = 2 -> Implies(left, right)
      [] k = 3 -> Or(left, right)
      [] k = 4 -> And(left, right)

RECURSIVE Derived(_, _)
Derived(toks, k) ==
    IF toks = <<>> THEN NoNode
    ELSE IF k <= 4
    THEN LET splits == { i \in 2..(Len(toks) - 1) :
                           /\ toks[i].type = LevelToken(k)
                           /\ Derived(SubSeq(toks, 1, i - 1), k) # NoNode
                           /\ Derived(SubSeq(toks, i + 1, Len(toks)), k + 1) # NoNode }
         IN IF splits = {} THEN Derived(toks, k + 1)
            ELSE LET i == CHOOSE j \in splits : TRUE
                 IN LevelNode(k, Derived(SubSeq(toks, 1, i - 1), k),
                                 Derived(SubSeq(toks, i + 1, Len(toks)), k + 1))
    ELSE IF toks[1].type \in {"NOT", "BOX", "DIAMOND"}
    THEN CHOOSE out \in
           { IF c = NoNode THEN NoNode
             ELSE CASE toks[1].type = "NOT" -> Not(c)
                    [] toks[1].type = "BOX" -> Box(c)
                    [] toks[1].type = "DIAMOND" -> Diamond(c) :
             c \in {Derived(Tail(toks), 5)} } : TRUE
    ELSE IF toks[1].type = "LPAREN"
    THEN IF Len(toks) >= 3 /\ toks[Len(toks)].type = "RPAREN"
         THEN Derived(SubSeq(toks, 2, Len(toks) - 1), 1)
         ELSE NoNode
    ELSE IF toks[1].type = "ATOM" /\ Len(toks) = 1 THEN Atom(toks[1].value)
    ELSE NoNode

IsParse == call.op = "parse"
ParsedText == call.args[1]

\* C17: for every text the parser accepts, the AST returned is the one the
\* grammar prescribes: IFF loosest, then IMPLIES, OR, AND, then the unary
\* operators; binary operators associate to the left; parentheses group.
C17_ParseFollowsGrammar ==
    (IsParse /\ call.result.exc = "none")
        => call.result.value = Derived(TokensFrom(ParsedText, 1), 1)

\* an implication of three operands was parsed
C17_Witness ==
    /\ IsParse /\ call.result.exc = "none"
    /\ call.result.value.type = "Implies"
    /\ call.result.value.left.type = "Implies"

\* C18: parsing returns an AST exactly when the text tokenizes and its whole
\* token sequence is derivable from the iff rule; in every other case it raises
\* the parser's syntax error (ValueError).
C18_ParseAcceptsExactlyGrammar ==
    IsParse =>
        /\ call.result.exc \in {"none", "ValueError"}
        /\ \A toks \in {TokensFrom(ParsedText, 1)} :
              call.result.exc = "none"
                 <=> /\ \A i \in DOMAIN toks : toks[i].exc = "none"
                     /\ Derived(toks, 1) # NoNode

\* a text that starts with a whole formula and goes on was refused
C18_Witness ==
    /\ IsParse /\ call.result.exc = "ValueError"
    /\ Tokenizes(ParsedText)
    /\ \E n \in 1..(Len(TokensFrom(ParsedText, 1)) - 1) :
          Derived(SubSeq(TokensFrom(ParsedText, 1), 1, n), 1) # NoNode

\* ---- the AST evaluator ----
\* The model is the Model state (worlds, accessibility_relation) over the
\* many-lattice (lattice, comp_sub_lat, negation_map, implication_map, filter).
\* A World's lattice is the registered Lattice object of the name
\* world_lattice[w]; its assignments are world_assignments[w], a dict from atom
\* names to values.
WorldLattice(world) == get_comp_sub_lattice(world_lattice[world])

\* the projection left out: the base value handed on as it is
interpret_no_projection(interpretation, lat, element_a) ==
    IF lat.name \notin registered_names THEN Raise("ValueError") ELSE Ok(element_a)

\* if interpretation == "up": up_interpretation, else: down_interpretation
interpret(interpretation, lat, element_a) ==
    IF interpretation = "up" THEN up_interpretation(lat, element_a)
    ELSE down_interpretation(lat, element_a)

\* the negation read from the world's own lattice in place of the base
negate_local(world, interpretation, val) ==
    IF world_lattice[world] \in DOMAIN sub_negation_map
          /\ val \in DOMAIN sub_negation_map[world_lattice[world]]
    THEN interpret(interpretation, WorldLattice(world),
                   sub_negation_map[world_lattice[world]][val])
    ELSE Raise("ValueError")

\* negation without the table: the value itself
negate_identity(world, interpretation, val) == Ok(val)

\* the base negation of a value, projected into the world's lattice
negate(world, interpretation, val) ==
    IF val \in DOMAIN negation_map
    THEN interpret(interpretation, WorldLattice(world), negation_map[val])
    ELSE Raise("ValueError")

\* Implies.evaluate after its operands: the base implication table's entry,
\* projected; without an entry the join of the projected base negation of val_a
\* with val_b
imply(world, interpretation, val_a, val_b) ==
    IF <<val_a, val_b>> \in DOMAIN implication_map
    THEN interpret(interpretation, WorldLattice(world), implication_map[<<val_a, val_b>>])
    ELSE CHOOSE out \in
           { IF val_not_a.exc # "none" THEN val_not_a
             ELSE join(WorldLattice(world), val_not_a.value, val_b) :
             val_not_a \in {negate(world, interpretation, val_a)} } : TRUE

\* Box projecting each value into the lattice of the world it comes from
Box_target_accessible(world, u) == WorldLattice(u)

\* Box projects the value found at the accessible world u into world.lattice
Box_target(world, u) == WorldLattice(world)

\* Box at a world that sees no world: bottom in place of top
Box_vacuous_bottom(world) == Ok(WorldLattice(world).bottom)

\* if not accessible_worlds: return world.lattice.top
Box_vacuous(world) == Ok(WorldLattice(world).top)

\* a Diamond built without the inner negation
Diamond_node_no_inner_not(child) == Not(Box(child))

\* what Diamond(child).evaluate builds and evaluates
Diamond_node(child) == Not(Box(Not(child)))

RECURSIVE evaluate(_, _, _)
evaluate(node, world, interpretation) ==
    CASE node.type = "Atom" ->
           IF node.name \in DOMAIN world_assignments[world]
           THEN Ok(world_assignments[world][node.name])
           ELSE Raise("ValueError")
      [] node.type = "Not" ->
           CHOOSE out \in
             { IF val.exc # "none" THEN val ELSE negate(world, interpretation, val.value) :
               val \in {evaluate(node.child, world, interpretation)} } : TRUE
      [] node.type = "And" ->
           CHOOSE out \in
             { IF val_a.exc # "none" THEN val_a
               ELSE CHOOSE out2 \in
                      { IF val_b.exc # "none" THEN val_b
                        ELSE meet(WorldLattice(world), val_a.value, val_b.value) :
                        val_b \in {evaluate(node.right, world, interpretation)} } : TRUE :
               val_a \in {evaluate(node.left, world, interpretation)} } : TRUE
      [] node.type = "Or" ->
           CHOOSE out \in
             { IF val_a.exc # "none" THEN val_a
               ELSE CHOOSE out2 \in
                      { IF val_b.exc # "none" THEN val_b
                        ELSE join(WorldLattice(world), val_a.value, val_b.value) :
                        val_b \in {evaluate(node.right, world, interpretation)} } : TRUE :
               val_a \in {evaluate(node.left, world, interpretation)} } : TRUE
      [] node.type = "Implies" ->
           CHOOSE out \in
             { IF val_a.exc # "none" THEN val_a
               ELSE CHOOSE out2 \in
                      { IF val_b.exc # "none" THEN val_b
                        ELSE imply(world, interpretation, val_a.value, val_b.value) :
                        val_b \in {evaluate(node.right, world, interpretation)} } : TRUE :
               val_a \in {evaluate(node.left, world, interpretation)} } : TRUE
      [] node.type = "Iff" ->
           evaluate(And(Implies(node.left, node.right), Implies(node.right, node.left)),
                    world, interpretation)
      [] node.type = "Box" ->
           IF acc_get(world, {}) = {} THEN Box_vacuous(world)
           ELSE CHOOSE out \in
                  { IF \E o \in outs : o.exc # "none" THEN CHOOSE o \in outs : o.exc # "none"
                    ELSE meet_set(WorldLattice(world), { o.value : o \in outs }) :
                    outs \in { { CHOOSE o \in
                                   { IF raw_val.exc # "none" THEN raw_val
                                     ELSE interpret(interpretation, Box_target(world, u),
                                                    raw_val.value) :
                                     raw_val \in {evaluate(node.child, u, interpretation)} } : TRUE :
                                 u \in acc_get(world, {}) } } } : TRUE
      [] node.type = "Diamond" ->
           evaluate(Diamond_node(node.child), world, interpretation)

\* get_atoms: the union of the atom names over the subtree
RECURSIVE get_atoms(_)
get_atoms(node) ==
    CASE node.type = "Atom" -> {node.name}
      [] node.type \in {"Not", "Box", "Diamond"} -> get_atoms(node.child)
      [] OTHER -> get_atoms(node.left) \cup get_atoms(node.right)

\* ---- a Model over a many-lattice, and formulas evaluated in it ----
\* The base is the chain 1 <= 2 <= ... of all element ids; the registered
\* sublattices are "K", a sub-chain, and "J", the whole chain.  Every World
\* object is a world of the model, with either lattice, with p assigned one of
\* its lattice's elements or not at all.  The negation map is any partial map of
\* the elements, the implication map empty or one constant.
ChainRelations(elements) == { r \in elements \X elements : r[1] <= r[2] }
Chain(name, elements) ==
    Lattice_init(name, elements, ChainRelations(elements),
                 [i \in 1..MaxElems |-> i]).value

PropNames == { <<"p">>, <<"q">> }
NegationMaps == UNION { [D -> 1..MaxElems] : D \in SUBSET (1..MaxElems) }
ImplicationMaps ==
    { <<>> } \cup { [pair \in (1..MaxElems) \X (1..MaxElems) |-> c] : c \in 1..MaxElems }
AssignmentsOf(elements, names) == UNION { [D -> elements] : D \in SUBSET names }

InitManyLatticeChain ==
    /\ lattice = Chain("L", 1..MaxElems)
    /\ \E sels \in (SUBSET (1..MaxElems)) \ {{}} :
          comp_sub_lat = << Chain("K", sels), Chain("J", 1..MaxElems) >>
    /\ negation_map \in NegationMaps
    /\ implication_map \in ImplicationMaps

InitEval ==
    /\ InitManyLatticeChain
    /\ filter = {}
    /\ sub_negation_map = <<>>
    /\ worlds = Worlds
    /\ initial_state = InitialStateArg
    /\ name_short = [w \in Worlds |-> "u"]
    /\ world_lattice \in [Worlds -> {"K", "J"}]
    /\ world_assignments \in [Worlds -> AssignmentsOf(1..MaxElems, {<<"p">>})]
    /\ \A w \in Worlds : \A name \in DOMAIN world_assignments[w] :
          world_assignments[w][name] \in WorldLattice(w).elements
    /\ accessibility_relation \in [Worlds -> SUBSET Worlds]
    /\ IdleWorld
    /\ call = NoCall

\* the formulas evaluated: p under up to two unary operators, and p combined
\* with p or with []p
UnaryOver(nodes) ==
    { Not(f) : f \in nodes } \cup { Box(f) : f \in nodes } \cup { Diamond(f) : f \in nodes }
BinaryOver(lefts, rights) ==
    { And(l, r) : l \in lefts, r \in rights } \cup { Or(l, r) : l \in lefts, r \in rights }
       \cup { Implies(l, r) : l \in lefts, r \in rights }
       \cup { Iff(l, r) : l \in lefts, r \in rights }
Formulas ==
    LET p == { Atom(<<"p">>) }
    IN p \cup UnaryOver(p) \cup UnaryOver(UnaryOver(p))
         \cup BinaryOver(p, p \cup { Box(f) : f \in p })

\* evaluation reads the model and writes nothing: a behaviour is one call
Evaluate ==
    /\ call.op = "none"
    /\ \E node \in Formulas : \E world \in worlds : \E interpretation \in {"up", "down"} :
          call' = [op |-> "evaluate", args |-> <<node, world, interpretation>>,
                   result |-> evaluate(node, world, interpretation)]
    /\ UNCHANGED <<lattice, comp_sub_lat, worlds, initial_state,
                   accessibility_relation, name_short, world_lattice, assignments, tables>>

NextEval == Evaluate

SpecEval == InitEval /\ [][NextEval]_vars

\* ---- claims about the evaluator ----
IsEvaluate == call.op = "evaluate"
EvalNode == call.args[1]
EvalWorld == call.args[2]
EvalMode == call.args[3]

\* every world's lattice is registered and every assigned value is an element
\* of its world's lattice
WellFormedModel ==
    \A w \in worlds :
        /\ world_lattice[w] \in registered_names
        /\ \A name \in DOMAIN world_assignments[w] :
              world_assignments[w][name] \in WorldLattice(w).elements

\* C12: in a model whose worlds have registered lattices and assignments inside
\* them, a value returned by evaluate(model, world, mode), mode up or down, is an
\* element of world.lattice.elements, for Box as well.
C12_ValueInWorldLattice ==
    (IsEvaluate /\ WellFormedModel /\ call.result.exc = "none")
        => call.result.value \in WorldLattice(EvalWorld).elements

\* Box returned a value at a world that sees a world of another lattice, where p
\* has a value that the evaluating world's lattice does not contain
C12_Witness ==
    /\ IsEvaluate /\ WellFormedModel /\ call.result.exc = "none"
    /\ EvalNode = Box(Atom(<<"p">>))
    /\ \E u \in acc_get(EvalWorld, {}) :
          /\ world_lattice[u] # world_lattice[EvalWorld]
          /\ <<"p">> \in DOMAIN world_assignments[u]
          /\ world_assignments[u][<<"p">>] \notin WorldLattice(EvalWorld).elements

\* C13: at a world whose accessibility set is empty, Box(A) returns the world's
\* top in both modes, whatever A is, also when an atom of A is unassigned there.
C13_VacuousBox ==
    (IsEvaluate /\ EvalNode.type = "Box" /\ acc_get(EvalWorld, {}) = {})
        => call.result = Ok(WorldLattice(EvalWorld).top)

\* Box(p) returned at a world that sees no world and has no value for p
C13_Witness ==
    /\ IsEvaluate /\ EvalNode = Box(Atom(<<"p">>))
    /\ acc_get(EvalWorld, {}) = {}
    /\ <<"p">> \notin DOMAIN world_assignments[EvalWorld]
    /\ call.result.exc = "none"

\* C14: Diamond(A).evaluate has the outcome of Not(Box(Not(A))).evaluate: the same
\* value, or an error in the same cases.
C14_DiamondIsNotBoxNot ==
    (IsEvaluate /\ EvalNode.type = "Diamond")
        => call.result = evaluate(Not(Box(Not(EvalNode.child))), EvalWorld, EvalMode)

\* Diamond returned a value at a world that sees a world
C14_Witness ==
    /\ IsEvaluate /\ EvalNode.type = "Diamond"
    /\ acc_get(EvalWorld, {}) # {}
    /\ call.result.exc = "none"

\* C22: at a world w that sees some world, Box(A) is w.lattice.meet_set of the
\* values of A at the worlds u seen from w, each computed at u (in u's lattice)
\* and projected into w's lattice, by up_interpretation in mode "up" and by
\* down_interpretation in mode "down"; when the value at some u or a projection
\* has none, Box(A) has none.
C22_BoxIsMeetOfProjections ==
    (IsEvaluate /\ EvalNode.type = "Box" /\ acc_get(EvalWorld, {}) # {})
        => \A raw \in { [u \in acc_get(EvalWorld, {}) |->
                           evaluate(EvalNode.child, u, EvalMode)] } :
           \A proj \in { [u \in acc_get(EvalWorld, {}) |->
                           IF raw[u].exc # "none" THEN raw[u]
                           ELSE IF EvalMode = "up"
                           THEN up_interpretation(WorldLattice(EvalWorld), raw[u].value)
                           ELSE down_interpretation(WorldLattice(EvalWorld), raw[u].value)] } :
              IF \A u \in DOMAIN proj : proj[u].exc = "none"
              THEN call.result = meet_set(WorldLattice(EvalWorld),
                                          { proj[u].value : u \in DOMAIN proj })
              ELSE call.result.exc # "none"

\* Box(p) returned at a world that sees two worlds, one of another lattice where
\* the value of p is no element of the evaluating world's lattice
C22_Witness ==
    /\ IsEvaluate /\ EvalNode = Box(Atom(<<"p">>)) /\ call.result.exc = "none"
    /\ Cardinality(acc_get(EvalWorld, {})) = 2
    /\ \E u \in acc_get(EvalWorld, {}) :
          /\ world_lattice[u] # world_lattice[EvalWorld]
          /\ <<"p">> \in DOMAIN world_assignments[u]
          /\ world_assignments[u][<<"p">>] \notin WorldLattice(EvalWorld).elements

\* C27: when the world at which evaluation starts assigns every name in
\* get_atoms of the formula, the evaluation there does not fail with "proposition
\* not defined".  In a model of registered chains with assignments inside them
\* and a base negation defined on every element, no other error can arise, so
\* there the evaluation returns a value.
C27_PrecheckSuffices ==
    (/\ IsEvaluate /\ WellFormedModel
     /\ DOMAIN negation_map = lattice.elements
     /\ get_atoms(EvalNode) \subseteq DOMAIN world_assignments[EvalWorld])
        => call.result.exc = "none"

\* ---- negation and implication tables ----
\* One world of lattice "K" (a sub-chain) or "J" (the whole chain), with p and q
\* assigned any element of the base or not at all: World.__init__ stores the
\* assignments it is given.  The base negation map is any partial map, the base
\* implication map has no entry, the entries (x, x), or every entry; the
\* sublattices carry a negation map of their own, empty or constant.
PartialImplicationMaps ==
    { [pair \in D |-> c] :
        D \in { {}, { <<x, x>> : x \in 1..MaxElems }, (1..MaxElems) \X (1..MaxElems) },
        c \in 1..MaxElems }
SubNegationMaps == { <<>> } \cup { [x \in 1..MaxElems |-> c] : c \in 1..MaxElems }

InitTables ==
    /\ lattice = Chain("L", 1..MaxElems)
    /\ \E sels \in (SUBSET (1..MaxElems)) \ {{}} :
          comp_sub_lat = << Chain("K", sels), Chain("J", 1..MaxElems) >>
    /\ negation_map \in NegationMaps
    /\ implication_map \in PartialImplicationMaps
    /\ \E m \in SubNegationMaps : sub_negation_map = [n \in {"K", "J"} |-> m]
    /\ filter = {}
    /\ worlds = {InitialStateArg}
    /\ initial_state = InitialStateArg
    /\ name_short = [w \in Worlds |-> "u"]
    /\ \E n \in {"K", "J"} : world_lattice = [w \in Worlds |-> n]
    /\ \E a \in AssignmentsOf(1..MaxElems, PropNames) : world_assignments = [w \in Worlds |-> a]
    /\ accessibility_relation = [w \in worlds |-> {}]
    /\ IdleWorld
    /\ call = NoCall

\* the formulas evaluated: negations and implications over p and q
TableFormulas ==
    LET p == Atom(<<"p">>)
        q == Atom(<<"q">>)
    IN { Not(p), Not(Not(p)), Implies(p, q), Implies(p, p), Implies(Not(p), q),
         Not(Implies(p, q)) }

EvaluateConnective ==
    /\ call.op = "none"
    /\ \E node \in TableFormulas : \E world \in worlds : \E interpretation \in {"up", "down"} :
          call' = [op |-> "evaluate", args |-> <<node, world, interpretation>>,
                   result |-> evaluate(node, world, interpretation)]
    /\ UNCHANGED <<lattice, comp_sub_lat, worlds, initial_state,
                   accessibility_relation, name_short, world_lattice, assignments, tables>>

NextTables == EvaluateConnective

SpecTables == InitTables /\ [][NextTables]_vars

\* the projection of a base element into the evaluating world's lattice, per mode
Projected(element) ==
    IF EvalMode = "up" THEN up_interpretation(WorldLattice(EvalWorld), element)
    ELSE down_interpretation(WorldLattice(EvalWorld), element)

\* C23: Not(A) at world w, where A has the value v: when v is a key of the base
\* negation_map the outcome is that of projecting negation_map[v] into w.lattice
\* (up_interpretation in mode "up", down_interpretation in mode "down"),
\* whatever the negation map of w's own lattice holds; when v is no key the
\* evaluation raises.
C23_NotUsesBaseNegation ==
    (IsEvaluate /\ EvalNode.type = "Not")
        => \A v \in {evaluate(EvalNode.child, EvalWorld, EvalMode)} :
              v.exc = "none"
                 => IF v.value \in DOMAIN negation_map
                    THEN call.result = Projected(negation_map[v.value])
                    ELSE call.result.exc = "ValueError"

\* Not(p) returned where the world's own lattice has, for the value of p, a
\* negation other than the base's, and the base's is no element of that lattice
C23_Witness ==
    /\ IsEvaluate /\ EvalNode = Not(Atom(<<"p">>)) /\ call.result.exc = "none"
    /\ \E v \in {world_assignments[EvalWorld][<<"p">>]} :
          /\ v \in DOMAIN sub_negation_map[world_lattice[EvalWorld]]
          /\ sub_negation_map[world_lattice[EvalWorld]][v] # negation_map[v]
          /\ negation_map[v] \notin WorldLattice(EvalWorld).elements

\* C24: Implies(A, B) at world w, where A and B have the values va and vb: when
\* (va, vb) is a key of the base implication_map the outcome is that of
\* projecting the entry into w.lattice per mode; otherwise, when va is a key of
\* the base negation_map, it is w.lattice.join of the projected negation_map[va]
\* and vb; and the evaluation raises only when (va, vb) is no key of the
\* implication map and va is no key of the negation map.
C24_ImpliesTableThenFallback ==
    (IsEvaluate /\ EvalNode.type = "Implies")
        => \A va \in {evaluate(EvalNode.left, EvalWorld, EvalMode)} :
           \A vb \in {evaluate(EvalNode.right, EvalWorld, EvalMode)} :
              (va.exc = "none" /\ vb.exc = "none")
                 => /\ <<va.value, vb.value>> \in DOMAIN implication_map
                          => call.result = Projected(implication_map[<<va.value, vb.value>>])
                    /\ (/\ <<va.value, vb.value>> \notin DOMAIN implication_map
                         /\ va.value \in DOMAIN negation_map)
                          => \A n \in {Projected(negation_map[va.value])} :
                                call.result = IF n.exc # "none" THEN n
                                              ELSE join(WorldLattice(EvalWorld), n.value, vb.value)
                    /\ call.result.exc # "none"
                          => /\ <<va.value, vb.value>> \notin DOMAIN implication_map
                             /\ va.value \notin DOMAIN negation_map

\* ---- evaluation in a Model with any accessibility relation ----
\* The Model is constructed with any set of worlds and any accessibility dict
\* (or none): a world may see itself, worlds may see each other, and a target
\* may be a World that is no world of the model and no key.  p is assigned the
\* bottom of the world's lattice, or not at all.
InitEvalModel ==
    /\ lattice = Chain("L", 1..MaxElems)
    /\ \E sels \in (SUBSET (1..MaxElems)) \ {{}} :
          comp_sub_lat = << Chain("K", sels), Chain("J", 1..MaxElems) >>
    /\ negation_map \in NegationMaps
    /\ implication_map = <<>>
    /\ sub_negation_map = <<>>
    /\ filter = {}
    /\ name_short = [w \in Worlds |-> "u"]
    /\ world_lattice \in [Worlds -> {"K", "J"}]
    /\ \E D \in SUBSET Worlds :
          world_assignments =
             [w \in Worlds |-> IF w \in D THEN [n \in {<<"p">>} |-> WorldLattice(w).bottom]
                               ELSE <<>>]
    /\ \E ws \in (SUBSET Worlds) \ {{}} : \E acc \in AccArgs :
          Model_init(ws, InitialStateArg, acc)
    /\ IdleWorld
    /\ call = NoCall

\* the formulas evaluated: p under modal operators, nested, and connectives
\* whose evaluation builds new nodes
NestedFormulas ==
    LET p == Atom(<<"p">>)
    IN { p, Box(p), Box(Box(p)), Diamond(p), Diamond(Box(p)), Not(Box(p)),
         And(p, Box(p)), Iff(p, Box(p)) }

Max(S) == CHOOSE x \in S : \A y \in S : y <= x

\* the worlds whose entry Box.evaluate looks up in accessibility_relation while
\* node is evaluated at world (all of them are reached when nothing raises)
RECURSIVE box_worlds(_, _)
box_worlds(node, world) ==
    CASE node.type = "Atom" -> {}
      [] node.type = "Not" -> box_worlds(node.child, world)
      [] node.type \in {"And", "Or", "Implies"} ->
           box_worlds(node.left, world) \cup box_worlds(node.right, world)
      [] node.type = "Iff" ->
           box_worlds(And(Implies(node.left, node.right), Implies(node.right, node.left)),
                      world)
      [] node.type = "Box" ->
           {world} \cup UNION { box_worlds(node.child, u) : u \in acc_get(world, {}) }
      [] node.type = "Diamond" -> box_worlds(Diamond_node(node.child), world)

\* the look-up by subscript: a defaultdict inserts an empty set for a missing key
dict_getitem(d, keys) == [k \in DOMAIN d \cup keys |-> IF k \in DOMAIN d THEN d[k] ELSE {}]

\* accessibility_relation.get(world, set()): a missing key gets the default and
\* nothing is inserted
dict_get(d, keys) == d

\* Box applied along an edge to the Box formula itself
Box_operand_same(node) == node

\* Box.evaluate calls self.child.evaluate at the accessible worlds
Box_operand(node) == node.child

\* the number of nested evaluate calls made for node at world, counted up to
\* fuel: every evaluate calls evaluate of its operands, Iff and Diamond of the
\* node they build, Box of its child at every accessible world
RECURSIVE call_depth(_, _, _)
call_depth(node, world, fuel) ==
    IF fuel = 0 THEN 0
    ELSE 1 + (CASE node.type = "Atom" -> 0
                [] node.type = "Not" -> call_depth(node.child, world, fuel - 1)
                [] node.type \in {"And", "Or", "Implies"} ->
                     Max({ call_depth(node.left, world, fuel - 1),
                           call_depth(node.right, world, fuel - 1) })
                [] node.type = "Iff" ->
                     call_depth(And(Implies(node.left, node.right),
                                    Implies(node.right, node.left)), world, fuel - 1)
                [] node.type = "Box" ->
                     IF acc_get(world, {}) = {} THEN 0
                     ELSE Max({ call_depth(Box_operand(node), u, fuel - 1) :
                                  u \in acc_get(world, {}) })
                [] node.type = "Diamond" ->
                     call_depth(Diamond_node(node.child), world, fuel - 1))

EvaluateInModel ==
    /\ call.op = "none"
    /\ \E node \in NestedFormulas : \E world \in worlds : \E interpretation \in {"up", "down"} :
          /\ call' = [op |-> "evaluate", args |-> <<node, world, interpretation>>,
                      result |-> evaluate(node, world, interpretation)]
          /\ accessibility_relation' = dict_get(accessibility_relation, box_worlds(node, world))
    /\ UNCHANGED <<lattice, comp_sub_lat, worlds, initial_state,
                   name_short, world_lattice, assignments, tables>>

NextEvalModel == EvaluateInModel

SpecEvalModel == InitEvalModel /\ [][NextEvalModel]_vars

\* C25: evaluating a formula at a world in either mode, whether it returns or
\* raises, leaves the model as it was: the worlds, every world's assignments,
\* the accessibility relation (its keys and every target set), the registered
\* sublattices and the negation and implication tables.
C25_EvaluateLeavesModel ==
    [][ call'.op = "evaluate"
          => UNCHANGED <<worlds, initial_state, world_assignments, world_lattice, name_short,
                         accessibility_relation, lattice, comp_sub_lat,
                         negation_map, implication_map, sub_negation_map, filter>> ]_vars

\* Box(Box(p)) returned at a world that sees a World without an entry in
\* accessibility_relation
C25_Witness ==
    /\ IsEvaluate /\ EvalNode = Box(Box(Atom(<<"p">>))) /\ call.result.exc = "none"
    /\ \E u \in acc_get(EvalWorld, {}) : u \notin DOMAIN accessibility_relation

\* the nesting of a formula, Iff and Diamond counted with the nodes their
\* evaluation builds: And(Implies, Implies) and Not(Box(Not))
MaxCalls == 12
RECURSIVE Nesting(_)
Nesting(node) ==
    CASE node.type = "Atom" -> 1
      [] node.type \in {"Not", "Box"} -> 1 + Nesting(node.child)
      [] node.type = "Diamond" -> 4 + Nesting(node.child)
      [] node.type \in {"And", "Or", "Implies"} ->
           1 + Max({ Nesting(node.left), Nesting(node.right) })
      [] node.type = "Iff" -> 3 + Max({ Nesting(node.left), Nesting(node.right) })

\* C26: the evaluation of a formula on a model ends, with a value or an error,
\* also where the accessibility relation has self-loops and cycles: the nested
\* evaluate calls are at most as many as the formula's nesting (after expanding
\* Diamond and Iff), however long the paths of the accessibility relation are.
C26_DepthBoundedByNesting ==
    IsEvaluate =>
        /\ call.result.exc \in {"none", "ValueError"}
        /\ Nesting(EvalNode) < MaxCalls
        /\ call_depth(EvalNode, EvalWorld, MaxCalls) <= Nesting(EvalNode)

\* Box(Box(p)) returned a value at a world that sees itself
C26_Witness ==
    /\ IsEvaluate /\ EvalNode = Box(Box(Atom(<<"p">>))) /\ call.result.exc = "none"
    /\ EvalWorld \in acc_get(EvalWorld, {})
    /\ call_depth(EvalNode, EvalWorld, MaxCalls) = 3

\* ---- the two-valued scenario ----
\* The Boolean lattice {0,1} with 0 <= 1 is the chain of the element ids 1 (for
\* '0') and 2 (for '1'); negation swaps them, the implication table is empty.
\* The one world's lattice is that chain, registered as "K"; p and q have values.
BoolElements == {1, 2}
Zero == Chain("K", BoolElements).bottom
One == Chain("K", BoolElements).top

InitBoolean ==
    /\ lattice = Chain("L", BoolElements)
    /\ comp_sub_lat = << Chain("K", BoolElements) >>
    /\ negation_map = [x \in BoolElements |-> IF x = Zero THEN One ELSE Zero]
    /\ implication_map = <<>>
    /\ filter = {}
    /\ sub_negation_map = <<>>
    /\ worlds = {InitialStateArg}
    /\ initial_state = InitialStateArg
    /\ name_short = [w \in Worlds |-> "u"]
    /\ world_lattice = [w \in Worlds |-> "K"]
    /\ \E a \in [PropNames -> BoolElements] : world_assignments = [w \in Worlds |-> a]
    /\ accessibility_relation \in [worlds -> SUBSET worlds]
    /\ IdleWorld
    /\ call = NoCall

\* the texts typed: p and q under one operator, as "~p" and "p & q", and "p &"
UnaryTexts == { Spell(<<u, a>>) : u \in { <<"~">>, <<"[", "]">>, <<"<", ">">> },
                                  a \in PropNames }
BinaryTexts ==
    { Spell(<<a, <<" ">>, o, <<" ">>, b>>) :
        a \in PropNames, b \in PropNames,
        o \in { <<"&">>, <<"|">>, <<"-", ">">>, <<"<", "-", ">">> } }
BoolTexts == PropNames \cup UnaryTexts \cup BinaryTexts \cup { Spell(<< <<"p">>, <<" ">>, <<"&">> >>) }

\* FormulaParser(text).parse().evaluate(model, world, interpretation)
EvaluateText ==
    /\ call.op = "none"
    /\ \E text \in BoolTexts : \E world \in worlds : \E interpretation \in {"up", "down"} :
       \E root \in {parse(text)} :
          IF root.exc # "none"
          THEN call' = [op |-> "parse", args |-> <<text>>, result |-> root]
          ELSE call' = [op |-> "evaluate", args |-> <<root.value, world, interpretation>>,
                        result |-> evaluate(root.value, world, interpretation)]
    /\ UNCHANGED <<lattice, comp_sub_lat, worlds, initial_state,
                   accessibility_relation, name_short, world_lattice, assignments, tables>>

NextBoolean == EvaluateText

SpecBoolean == InitBoolean /\ [][NextBoolean]_vars

\* C15: on the Boolean lattice with negation {0:1, 1:0} and no implication table,
\* in a single world of that lattice, "p & q", "p | q", "~p" and "p -> q"
\* evaluate in both modes to classical conjunction, disjunction, negation and
\* material implication of the values of p and q; p=1, q=0 give 0, 1, 0 and 0.
TextOf(lexemes) == parse(Spell(lexemes)).value
Classical(b) == Ok(IF b THEN One ELSE Zero)
C15_ClassicalConnectives ==
    IsEvaluate =>
        LET p == world_assignments[EvalWorld][<<"p">>] = One
            q == world_assignments[EvalWorld][<<"q">>] = One
        IN /\ EvalNode = TextOf(<< <<"p">>, <<" ">>, <<"&">>, <<" ">>, <<"q">> >>)
                => call.result = Classical(p /\ q)
           /\ EvalNode = TextOf(<< <<"p">>, <<" ">>, <<"|">>, <<" ">>, <<"q">> >>)
                => call.result = Classical(p \/ q)
           /\ EvalNode = TextOf(<< <<"~">>, <<"p">> >>)
                => call.result = Classical(~p)
           /\ EvalNode = TextOf(<< <<"p">>, <<" ">>, <<"-", ">">>, <<" ">>, <<"q">> >>)
                => call.result = Classical(p => q)

\* "p -> q" evaluated with p = 1 and q = 0 gave 0
C15_Witness ==
    /\ IsEvaluate
    /\ EvalNode = Implies(Atom(<<"p">>), Atom(<<"q">>))
    /\ world_assignments[EvalWorld][<<"p">>] = One
    /\ world_assignments[EvalWorld][<<"q">>] = Zero
    /\ call.result = Ok(Zero)

\* ---- the validity check of the application ----
\* World objects are 1..MaxCheckWorlds here and a world's name_long is its id,
\* so sorting by name_long is sorting by id.  The model's worlds are 1..n, all of
\* lattice "K", the whole chain; each sees no world or itself.
MaxCheckWorlds == 4
MaxShown == 3

\* str.strip()
RECURSIVE strip(_)
strip(text) ==
    IF text = <<>> THEN text
    ELSE IF isspace(Head(text)) THEN strip(Tail(text))
    ELSE IF isspace(text[Len(text)]) THEN strip(SubSeq(text, 1, Len(text) - 1))
    ELSE text

\* sorted(model.worlds, key=lambda x: x.name_long)
RECURSIVE sorted(_)
sorted(ws) ==
    IF ws = {} THEN <<>>
    ELSE LET first == CHOOSE w \in ws : \A v \in ws : w <= v
         IN <<first>> \o sorted(ws \ {first})

\* what the check shows: nothing (it returned at once), a syntax warning, a
\* missing-assignment warning, an error box, or the verdict with the names of
\* the first MaxShown failing worlds, an ellipsis when there are more, and the
\* number of failing worlds (status bar)
Shown(outcome, failed, more, count) ==
    Ok([outcome |-> outcome, failed |-> failed, more |-> more, count |-> count])

verdict(failed) ==
    IF failed = <<>> THEN Shown("valid", <<>>, FALSE, 0)
    ELSE Shown("invalid", SubSeq(failed, 1, IF Len(failed) > MaxShown THEN MaxShown ELSE Len(failed)),
               Len(failed) > MaxShown, Len(failed))

check_model_validity(text, interpretation) ==
    LET f_str == strip(text)
    IN IF f_str = <<>> THEN Shown("nothing", <<>>, FALSE, 0)
       ELSE CHOOSE out \in
              { IF root.exc # "none" THEN Shown("syntax error", <<>>, FALSE, 0)
                ELSE IF \E w \in worlds :
                          \E a \in get_atoms(root.value) : a \notin DOMAIN world_assignments[w]
                THEN Shown("missing", <<>>, FALSE, 0)
                ELSE CHOOSE out2 \in
                       { IF \E w \in worlds : values[w].exc # "none"
                         THEN Shown("error", <<>>, FALSE, 0)
                         ELSE verdict(SelectSeq(sorted(worlds),
                                                LAMBDA w : values[w].value \notin filter)) :
                         values \in { [w \in worlds |->
                                          evaluate(root.value, w, interpretation)] } } : TRUE :
                root \in {parse(f_str)} } : TRUE

InitValidity ==
    /\ lattice = Chain("L", 1..MaxElems)
    /\ comp_sub_lat = << Chain("K", 1..MaxElems) >>
    /\ negation_map \in NegationMaps
    /\ implication_map = <<>>
    /\ sub_negation_map = <<>>
    /\ filter \in SUBSET (1..MaxElems)
    /\ \E n \in 0..MaxCheckWorlds : worlds = 1..n
    /\ initial_state = InitialStateArg
    /\ name_short = [w \in worlds |-> "u"]
    /\ world_lattice = [w \in worlds |-> "K"]
    /\ world_assignments \in [worlds -> AssignmentsOf(1..MaxElems, {<<"p">>})]
    /\ accessibility_relation \in { [w \in worlds |-> {}], [w \in worlds |-> {w}] }
    /\ IdleWorld
    /\ call = NoCall

\* the texts in the formula field
CheckTexts ==
    { <<>>, <<"p">>, <<"~", "p">>, <<"[", "]", "p">>,
      <<"p", " ", "-", ">", " ", "p">>, <<"p", " ", "&">> }

\* the check reads the model and writes nothing but the result label
CheckModelValidity ==
    /\ call.op = "none"
    /\ \E text \in CheckTexts : \E interpretation \in {"up", "down"} :
          call' = [op |-> "check_model_validity", args |-> <<text, interpretation>>,
                   result |-> check_model_validity(text, interpretation)]
    /\ UNCHANGED <<lattice, comp_sub_lat, worlds, initial_state,
                   accessibility_relation, name_short, world_lattice, assignments, tables>>

NextValidity == CheckModelValidity

SpecValidity == InitValidity /\ [][NextValidity]_vars

\* C16: the validity check reports as failing exactly the worlds of the model at
\* which the formula has a value that is not in the filter: none of the others
\* is reported, none of these is left out.
C16_ReportsExactlyFailing ==
    (call.op = "check_model_validity" /\ parse(strip(call.args[1])).exc = "none")
        => LET root == parse(strip(call.args[1])).value
               shown == call.result.value.failed
           IN { shown[i] : i \in DOMAIN shown }
                 = { w \in worlds :
                       /\ evaluate(root, w, call.args[2]).exc = "none"
                       /\ evaluate(root, w, call.args[2]).value \notin filter }

====
